---- MODULE Spec2Model ----
(***************************************************************************)
(* bedpool: pooling of two coordinate-sorted BED files (src/lib.rs).       *)
(*                                                                         *)
(* Text is modelled as sequences of one-character strings, so that         *)
(* splitting, parsing and formatting are computed on characters as the     *)
(* code computes them.  f32 values are modelled as exact fractions         *)
(* [n, d]; d = 0 encodes the non-finite values (n = 1: inf, n = 0: NaN).   *)
(* All numbers the line universe can produce (sums and quotients of        *)
(* 0, 5, 10 and 0.25, 0.5) are exactly representable in f32, so no         *)
(* rounding occurs.                                                        *)
(***************************************************************************)
EXTENDS Integers, Sequences, FiniteSets, TLC

\* Bound: total number of lines of the two input files together.
MaxTotal == 3

----------------------------------------------------------------------------
(* Characters and strings                                                  *)

TAB == "\t"
NL == "\n"
SP == " "
\* A byte that is not valid UTF-8.
BadByte == "<FF>"

\* The byte value of a character (what &str's Ord compares).
Code(c) ==
    CASE c = TAB -> 9 [] c = NL -> 10 [] c = SP -> 32 [] c = "+" -> 43
      [] c = "." -> 46
      [] c = "0" -> 48 [] c = "1" -> 49 [] c = "2" -> 50 [] c = "3" -> 51
      [] c = "4" -> 52 [] c = "5" -> 53 [] c = "6" -> 54 [] c = "7" -> 55
      [] c = "8" -> 56 [] c = "9" -> 57
      [] c = "N" -> 78 [] c = "a" -> 97 [] c = "c" -> 99 [] c = "f" -> 102
      [] c = "h" -> 104 [] c = "i" -> 105 [] c = "n" -> 110 [] c = "r" -> 114
      [] c = "x" -> 120
      [] OTHER -> 255

IsDigit(c) == Code(c) >= 48 /\ Code(c) <= 57

DigitVal(c) == Code(c) - 48

DigitChar(v) ==
    CASE v = 0 -> "0" [] v = 1 -> "1" [] v = 2 -> "2" [] v = 3 -> "3"
      [] v = 4 -> "4" [] v = 5 -> "5" [] v = 6 -> "6" [] v = 7 -> "7"
      [] v = 8 -> "8" [] OTHER -> "9"

\* u8::is_ascii_whitespace: space, tab, line feed, form feed, carriage return.
IsAsciiWhitespace(c) == Code(c) \in {9, 10, 12, 13, 32}

Min(a, b) == IF a < b THEN a ELSE b

\* Iterator::take(n) on a sequence.
Take(s, n) == SubSeq(s, 1, Min(n, Len(s)))

\* Ordering of two strings as str::cmp computes it: lexicographic on bytes.
RECURSIVE StrCmp(_, _)
StrCmp(a, b) ==
    IF a = <<>> /\ b = <<>> THEN "Equal"
    ELSE IF a = <<>> THEN "Less"
    ELSE IF b = <<>> THEN "Greater"
    ELSE IF Code(Head(a)) < Code(Head(b)) THEN "Less"
    ELSE IF Code(Head(a)) > Code(Head(b)) THEN "Greater"
    ELSE StrCmp(Tail(a), Tail(b))

IntCmp(a, b) == IF a < b THEN "Less" ELSE IF a > b THEN "Greater" ELSE "Equal"

\* str::split_ascii_whitespace: the maximal runs of non-whitespace bytes.
RECURSIVE SplitFrom(_, _, _, _)
SplitFrom(s, i, cur, acc) ==
    IF i > Len(s)
    THEN IF cur = <<>> THEN acc ELSE Append(acc, cur)
    ELSE IF IsAsciiWhitespace(s[i])
         THEN SplitFrom(s, i + 1, <<>>, IF cur = <<>> THEN acc ELSE Append(acc, cur))
         ELSE SplitFrom(s, i + 1, Append(cur, s[i]), acc)

split_ascii_whitespace(s) == SplitFrom(s, 1, <<>>, <<>>)

\* str::from_utf8 succeeds on the bytes read.
IsValidUtf8(s) == \A i \in 1..Len(s) : s[i] # BadByte

----------------------------------------------------------------------------
(* Numbers                                                                 *)

RECURSIVE Gcd(_, _)
Gcd(a, b) == IF b = 0 THEN a ELSE Gcd(b, a % b)

\* A fraction in lowest terms (n >= 0; d = 0 is the non-finite case).
Frac(n, d) ==
    IF d = 0 THEN [n |-> IF n = 0 THEN 0 ELSE 1, d |-> 0]
    ELSE LET g == Gcd(n, d) IN [n |-> n \div g, d |-> d \div g]

\* f32 has a 24-bit significand: every integer below 2^24 is a value of the
\* type, above it only the multiples of the unit in the last place are.
F32Significand == 16777216

RECURSIVE Ulp(_)
Ulp(n) == IF n < F32Significand THEN 1 ELSE 2 * Ulp(n \div 2)

\* Round to nearest, ties to the even significand.
RoundInt(n) ==
    LET u == Ulp(n)
        q == n \div u
        r == n % u
    IN  IF 2 * r < u THEN q * u
        ELSE IF 2 * r > u THEN (q + 1) * u
        ELSE IF q % 2 = 0 THEN q * u
        ELSE (q + 1) * u

\* The f32 nearest to a fraction.  (The fractions that are not whole numbers
\* are, in the line universe, halves and quarters of small numbers: exact.)
F32Round(v) == IF v.d = 1 THEN [n |-> RoundInt(v.n), d |-> 1] ELSE v

RECURSIVE DigitsVal(_, _)
DigitsVal(s, acc) ==
    IF s = <<>> THEN acc ELSE DigitsVal(Tail(s), acc * 10 + DigitVal(Head(s)))

RECURSIVE Pow10(_)
Pow10(k) == IF k = 0 THEN 1 ELSE 10 * Pow10(k - 1)

AllDigits(s) == \A i \in 1..Len(s) : IsDigit(s[i])

\* <u64 as FromStr>::from_str: an optional '+', then one or more digits.
\* (The digit strings of the line universe are far below 2^64.)
ParseU64(tok) ==
    LET body == IF tok # <<>> /\ Head(tok) = "+" THEN Tail(tok) ELSE tok
    IN  IF body # <<>> /\ AllDigits(body)
        THEN [ok |-> TRUE, val |-> DigitsVal(body, 0)]
        ELSE [ok |-> FALSE, val |-> 0]

\* Index of the first '.' of s, or 0.
RECURSIVE DotAt(_, _)
DotAt(s, i) ==
    IF i > Len(s) THEN 0 ELSE IF s[i] = "." THEN i ELSE DotAt(s, i + 1)

\* <f32 as FromStr>::from_str on the decimal grammar: an optional '+', digits
\* with at most one '.', at least one digit in all.  (No character of the
\* line universe starts an exponent or spells inf / nan.)
ParseF32(tok) ==
    LET body == IF tok # <<>> /\ Head(tok) = "+" THEN Tail(tok) ELSE tok
        dot  == DotAt(body, 1)
        ip   == IF dot = 0 THEN body ELSE SubSeq(body, 1, dot - 1)
        fp   == IF dot = 0 THEN <<>> ELSE SubSeq(body, dot + 1, Len(body))
    IN  IF AllDigits(ip) /\ AllDigits(fp) /\ Len(ip) + Len(fp) > 0
        THEN [ok |-> TRUE,
              val |-> F32Round(Frac(DigitsVal(ip, 0) * Pow10(Len(fp)) + DigitsVal(fp, 0),
                                    Pow10(Len(fp))))]
        ELSE [ok |-> FALSE, val |-> Frac(0, 1)]

\* f32 addition and division (IEEE 754 on non-negative operands).
F32Add(a, b) ==
    IF a.d = 0 /\ a.n = 0 THEN a
    ELSE IF b.d = 0 /\ b.n = 0 THEN b
    ELSE IF a.d = 0 THEN a
    ELSE IF b.d = 0 THEN b
    ELSE F32Round(Frac(a.n * b.d + b.n * a.d, a.d * b.d))

F32Div(a, b) ==
    IF (a.d = 0 /\ a.n = 0) \/ (b.d = 0 /\ b.n = 0) THEN Frac(0, 0)
    ELSE IF a.d = 0 THEN (IF b.d = 0 THEN Frac(0, 0) ELSE Frac(1, 0))
    ELSE IF b.d = 0 THEN Frac(0, 1)
    ELSE IF b.n = 0 THEN (IF a.n = 0 THEN Frac(0, 0) ELSE Frac(1, 0))
    ELSE F32Round(Frac(a.n * b.d, a.d * b.n))

\* Display for u64: decimal digits, no sign, no leading zeros.
RECURSIVE FormatU64(_)
FormatU64(v) ==
    IF v < 10 THEN <<DigitChar(v)>>
    ELSE Append(FormatU64(v \div 10), DigitChar(v % 10))

\* The fractional digits of r / d (r < d), for a terminating decimal.
RECURSIVE FracDigits(_, _)
FracDigits(r, d) ==
    IF r = 0 THEN <<>>
    ELSE <<DigitChar((r * 10) \div d)>> \o FracDigits((r * 10) % d, d)

\* Display for f32: the shortest decimal that reads back as the value;
\* "inf" and "NaN" for the non-finite values; no ".0" on whole numbers.
FormatF32(v) ==
    IF v.d = 0 THEN (IF v.n = 0 THEN <<"N", "a", "N">> ELSE <<"i", "n", "f">>)
    ELSE LET ip == v.n \div v.d
             r  == v.n % v.d
         IN  IF r = 0 THEN FormatU64(ip)
             ELSE FormatU64(ip) \o <<".">> \o FracDigits(r, v.d)

----------------------------------------------------------------------------
(* Records, coordinates and errors                                         *)

\* Option<T>: None is <<>>, Some(x) is <<x>>.
None == <<>>

Some(x) == <<x>>

\* Mutant: the fields compared in the order start, end, chrom.
CoordsCmp_StartFirst(a, b) ==
    LET c == StrCmp(a.chrom, b.chrom)
        s == IntCmp(a.start, b.start)
        e == IntCmp(a.end, b.end)
    IN  IF s # "Equal" THEN s
        ELSE IF e # "Equal" THEN e
        ELSE c

\* Mutant: unequal coordinates always compare as Less.
CoordsCmp_NeverGreater(a, b) == IF a = b THEN "Equal" ELSE "Less"

\* #[derive(Ord)] on BedCoords: chrom, then start, then end.
CoordsCmp(a, b) ==
    LET c == StrCmp(a.chrom, b.chrom)
        s == IntCmp(a.start, b.start)
    IN  IF c # "Equal" THEN c
        ELSE IF s # "Equal" THEN s
        ELSE IntCmp(a.end, b.end)

\* Mutant: cov printed before meth.
Display_CovFirst(rec) ==
    rec.coords.chrom \o <<TAB>> \o FormatU64(rec.coords.start) \o <<TAB>>
      \o FormatU64(rec.coords.end) \o <<TAB>> \o FormatF32(rec.ratio) \o <<TAB>>
      \o FormatF32(rec.cov) \o <<TAB>> \o FormatF32(rec.meth)

\* impl Display for BedRecord: the six fields, tab-separated.
Display(rec) ==
    rec.coords.chrom \o <<TAB>> \o FormatU64(rec.coords.start) \o <<TAB>>
      \o FormatU64(rec.coords.end) \o <<TAB>> \o FormatF32(rec.ratio) \o <<TAB>>
      \o FormatF32(rec.meth) \o <<TAB>> \o FormatF32(rec.cov)

\* BedError::Parse(filename, lineno, msg) and BedError::File(filename, e).
\* One record shape serves both: `what` is the message ("columns", "integer",
\* "float") or the io::Error; `got` is the column count of a "columns" message.
ParseError(filename, lineno, what, got) ==
    [kind |-> "Parse", filename |-> filename, lineno |-> lineno,
     what |-> what, got |-> got]

\* impl ToBedErr for io::Error.
FileError(filename, e) ==
    [kind |-> "File", filename |-> filename, lineno |-> 0, what |-> e, got |-> 0]

\* What a call of next hands back: the reader after the call, Ok(rec) or
\* Err(err), and what read_line did in it ("none": not called, "eof": Ok(0),
\* "line": Ok(n) with n > 0, "err": Err).
OkRet(self, opt, rd) ==
    [self |-> self, tag |-> "Ok", rec |-> opt, err |-> None, rd |-> rd]

ErrRet(self, e, rd) ==
    [self |-> self, tag |-> "Err", rec |-> None, err |-> Some(e), rd |-> rd]

----------------------------------------------------------------------------
(* BedFile::next                                                           *)

\* Mutant: the line number of the previous line is reported.
ColumnsError_PreviousLine(self, parts) ==
    ErrRet(self, ParseError(self.filename, self.lineno - 1, "columns", Len(parts)), "line")

\* lib.rs 114-118: "expected at least 6 columns, got {}".
ColumnsError(self, parts) ==
    ErrRet(self, ParseError(self.filename, self.lineno, "columns", Len(parts)), "line")

\* Mutant: a failed integer parse is reported as a failed float parse.
IntError_AsFloat(self) ==
    ErrRet(self, ParseError(self.filename, self.lineno, "float", 0), "line")

\* impl ToBedErr for ParseIntError: "expected integer, but {}".
IntError(self) ==
    ErrRet(self, ParseError(self.filename, self.lineno, "integer", 0), "line")

\* impl ToBedErr for ParseFloatError: "expected float, but {}".
FloatError(self) ==
    ErrRet(self, ParseError(self.filename, self.lineno, "float", 0), "line")

\* The annotation of a line just stored in self.last (lib.rs 111-131).
Annotate(self, line) ==
    LET parts == Take(split_ascii_whitespace(line), 6)
    IN  IF Len(parts) < 6
        THEN ColumnsError(self, parts)
        ELSE LET start == ParseU64(parts[2])
                 end   == ParseU64(parts[3])
                 ratio == ParseF32(parts[4])
                 meth  == ParseF32(parts[5])
                 cov   == ParseF32(parts[6])
             IN  IF ~start.ok
                 THEN IntError(self)
                 ELSE IF ~end.ok
                 THEN IntError(self)
                 ELSE IF ~ratio.ok
                 THEN FloatError(self)
                 ELSE IF ~meth.ok
                 THEN FloatError(self)
                 ELSE IF ~cov.ok
                 THEN FloatError(self)
                 ELSE OkRet(self,
                            Some([coords |-> [chrom |-> parts[1], start |-> start.val,
                                              end |-> end.val],
                                  ratio |-> ratio.val, meth |-> meth.val,
                                  cov |-> cov.val]),
                            "line")

\* Mutant: the end-of-file flag is not consulted.
AtEof_Never(self) == FALSE

\* lib.rs 98: the end-of-file flag is tested before anything is read.
AtEof(self) == self.at_eof

\* Mutant: the line counter is not advanced.
Consume_NoCount(self, buffer) ==
    [self EXCEPT !.pos = @ + 1, !.bufsize = Len(buffer), !.last = Some(buffer)]

\* lib.rs 102-108: a line was read; it is counted and kept in `last`.
Consume(self, buffer) ==
    [self EXCEPT !.pos = @ + 1, !.bufsize = Len(buffer), !.lineno = @ + 1,
                 !.last = Some(buffer)]

\* BedFile::next on reader `self` over the file content `content`.
\* `io` is the environment's answer to this read: "ok", or "eio" for a read
\* that fails before any byte is delivered.  A line that is not valid UTF-8
\* makes read_line fail after it has consumed the line from the stream
\* (BufRead::read_line reads up to the newline, then validates).
BedFile_next(self, content, io) ==
    IF AtEof(self) THEN OkRet(self, None, "none")
    ELSE IF io = "eio" THEN ErrRet(self, FileError(self.filename, "Other"), "err")
    ELSE IF self.pos = Len(content)
    THEN OkRet([self EXCEPT !.bufsize = 0, !.at_eof = TRUE], None, "eof")
    ELSE LET buffer == content[self.pos + 1]
         IN  IF ~IsValidUtf8(buffer)
             THEN ErrRet([self EXCEPT !.pos = @ + 1],
                         FileError(self.filename, "InvalidData"), "err")
             ELSE Annotate(Consume(self, buffer), buffer)

----------------------------------------------------------------------------
(* Input files                                                             *)

chr1 == <<"c", "h", "r", "1">>
chr2 == <<"c", "h", "r", "2">>
t0 == <<"0">>
tBig == <<"1", "6", "7", "7", "7", "2", "1", "6">>
t5 == <<"5">>
t10 == <<"1", "0">>
t100 == <<"1", "0", "0">>
t200 == <<"2", "0", "0">>
t300 == <<"3", "0", "0">>
t400 == <<"4", "0", "0">>
tHalf == <<"0", ".", "5">>
tQuarter == <<"0", ".", "2", "5">>
tX == <<"x">>

\* The fields joined by the separator, with the line terminator.
RECURSIVE Join(_, _)
Join(toks, sep) ==
    IF toks = <<>> THEN <<NL>>
    ELSE IF Len(toks) = 1 THEN Head(toks) \o <<NL>>
    ELSE Head(toks) \o <<sep>> \o Join(Tail(toks), sep)

\* The lines a file may hold.
\*  1  chr1 100 200 0.5 5 10, space-separated
\*  2  chr1 300 400 0.25 5 10, tab-separated (the form sync2 prints; its
\*     ratio column is not meth / cov)
\*  3  chr2 +100 200 0.50 5.0 10 extra (other spellings, a 7th field)
\*  4  chr1 100 200 0 16777216 0 (zero coverage; meth is 2^24)
\*  5  chr1 x 200 0.5 (4 fields, the 2nd no integer)
\*  6  chr1 100 200 0.5 x 10 (6 fields, the 5th no float)
\*  7  a blank line
\*  8  a line that is not valid UTF-8
LineUniverse ==
    { Join(<<chr1, t100, t200, tHalf, t5, t10>>, SP),
      Join(<<chr1, t300, t400, tQuarter, t5, t10>>, TAB),
      Join(<<chr2, <<"+">> \o t100, t200, tHalf \o <<"0">>, t5 \o <<".", "0">>, t10,
             <<"e", "x", "t", "r", "a">>>>, SP),
      Join(<<chr1, t100, t200, t0, tBig, t0>>, SP),
      Join(<<chr1, tX, t200, tHalf>>, SP),
      Join(<<chr1, t100, t200, tHalf, tX, t10>>, SP),
      Join(<<>>, SP),
      Join(<<chr1, <<BadByte>>, t200, tHalf, t5, t10>>, SP) }

\* All pairs of files of at most MaxTotal lines together.
Inputs ==
    UNION { { <<a, b>> : a \in [1..p[1] -> LineUniverse], b \in [1..p[2] -> LineUniverse] } :
            p \in { q \in (0..MaxTotal) \X (0..MaxTotal) : q[1] + q[2] <= MaxTotal } }

\* Bound: the length of a file pooled with a copy of itself.
MaxSelf == 2

\* A file and a byte-identical copy of it.
SelfInputs == UNION { { <<a, a>> : a \in [1..k -> LineUniverse] } : k \in 0..MaxSelf }

----------------------------------------------------------------------------
(* State                                                                   *)

VARIABLES
    disk,       \* disk[i]: the lines of input file i (never written)
    bf,         \* bf[i]: the BedFile reading file i
    maybe_rec,  \* maybe_rec[i]: sync2's pending record of reader i
    pc,         \* where sync2 is
    result,     \* what sync2 returned
    out,        \* the lines printed to standard output
    emitted,    \* history: for each printed line, the record and its source lines
    calls       \* history: the calls of next, in order

vars == <<disk, bf, maybe_rec, pc, result, out, emitted, calls>>

Readers == {1, 2}

Filename(i) == IF i = 1 THEN "file1" ELSE "file2"

\* BedFile::new after a successful open.
BedFile_new(fname) ==
    [lineno |-> 0, last |-> None, filename |-> fname, pos |-> 0,
     bufsize |-> 32, at_eof |-> FALSE]

Init ==
    /\ disk \in Inputs \cup SelfInputs
    /\ bf = [i \in Readers |-> BedFile_new(Filename(i))]
    /\ maybe_rec = [i \in Readers |-> None]
    /\ pc = "prime1"
    /\ result = [tag |-> "Running", err |-> None]
    /\ out = <<>>
    /\ emitted = <<>>
    /\ calls = <<>>

----------------------------------------------------------------------------
(* sync2                                                                   *)

\* Mutant: a failed read is skipped and the merge goes on without a record.
CallNext_SkipError(i, io, goto) ==
    LET r == BedFile_next(bf[i], disk[i], io)
    IN  /\ bf' = [bf EXCEPT ![i] = r.self]
        /\ calls' = Append(calls, [reader |-> i, tag |-> r.tag, rec |-> r.rec,
                                    err |-> r.err, rd |-> r.rd, nout |-> Len(out)])
        /\ maybe_rec' = [maybe_rec EXCEPT ![i] = r.rec]
        /\ pc' = goto
        /\ result' = result
        /\ UNCHANGED <<disk, out, emitted>>

\* Mutant: on an error the record pending on the other reader is printed
\* before sync2 returns.
CallNext_FlushOnError(i, io, goto) ==
    LET r == BedFile_next(bf[i], disk[i], io)
        other == maybe_rec[3 - i]
    IN  /\ bf' = [bf EXCEPT ![i] = r.self]
        /\ calls' = Append(calls, [reader |-> i, tag |-> r.tag, rec |-> r.rec,
                                    err |-> r.err, rd |-> r.rd, nout |-> Len(out)])
        /\ IF r.tag = "Ok"
           THEN /\ maybe_rec' = [maybe_rec EXCEPT ![i] = r.rec]
                /\ pc' = goto
                /\ result' = result
                /\ UNCHANGED <<out, emitted>>
           ELSE /\ maybe_rec' = maybe_rec
                /\ pc' = "return"
                /\ result' = [tag |-> "Err", err |-> r.err]
                /\ IF other = None
                   THEN UNCHANGED <<out, emitted>>
                   ELSE /\ out' = Append(out, Display(other[1]) \o <<NL>>)
                        /\ emitted' = Append(emitted,
                               [rec |-> other[1],
                                src |-> [k \in Readers |-> IF k = i THEN 0 ELSE bf[k].pos]])
        /\ UNCHANGED disk

\* `maybe_rec_i = file_i.next()?` : on Ok the pending record is replaced and
\* sync2 goes on at `goto`; on Err sync2 returns the error.
CallNext(i, io, goto) ==
    LET r == BedFile_next(bf[i], disk[i], io)
    IN  /\ bf' = [bf EXCEPT ![i] = r.self]
        /\ calls' = Append(calls, [reader |-> i, tag |-> r.tag, rec |-> r.rec,
                                    err |-> r.err, rd |-> r.rd, nout |-> Len(out)])
        /\ IF r.tag = "Ok"
           THEN /\ maybe_rec' = [maybe_rec EXCEPT ![i] = r.rec]
                /\ pc' = goto
                /\ result' = result
           ELSE /\ maybe_rec' = maybe_rec
                /\ pc' = "return"
                /\ result' = [tag |-> "Err", err |-> r.err]
        /\ UNCHANGED <<disk, out, emitted>>

IoOutcomes == {"ok", "eio"}

\* lib.rs 140
Prime1 == pc = "prime1" /\ \E io \in IoOutcomes : CallNext(1, io, "prime2")

\* lib.rs 141
Prime2 == pc = "prime2" /\ \E io \in IoOutcomes : CallNext(2, io, "match")

\* Mutant: the ratio of rec1 is kept (struct update without `ratio`).
Aggregate_KeepRatio(rec1, rec2) ==
    [coords |-> rec1.coords, ratio |-> rec1.ratio,
     meth |-> F32Add(rec1.meth, rec2.meth), cov |-> F32Add(rec1.cov, rec2.cov)]

\* Mutant: meth is taken from rec1 alone.
Aggregate_MethOfRec1(rec1, rec2) ==
    LET cov == F32Add(rec1.cov, rec2.cov)
    IN  [coords |-> rec1.coords, ratio |-> F32Div(rec1.meth, cov),
         meth |-> rec1.meth, cov |-> cov]

\* Mutant: the ratio is the sum of the two ratios.
Aggregate_SumRatio(rec1, rec2) ==
    [coords |-> rec1.coords, ratio |-> F32Add(rec1.ratio, rec2.ratio),
     meth |-> F32Add(rec1.meth, rec2.meth), cov |-> F32Add(rec1.cov, rec2.cov)]

\* Mutant: the coverage of rec2 is not added.
Aggregate_CovOfRec1(rec1, rec2) ==
    LET meth == F32Add(rec1.meth, rec2.meth)
    IN  [coords |-> rec1.coords, ratio |-> F32Div(meth, rec1.cov), meth |-> meth,
         cov |-> rec1.cov]

\* Mutant: a zero coverage sum is guarded, the ratio is then 0.
Aggregate_GuardZero(rec1, rec2) ==
    LET meth == F32Add(rec1.meth, rec2.meth)
        cov  == F32Add(rec1.cov, rec2.cov)
    IN  [coords |-> rec1.coords,
         ratio |-> IF cov = Frac(0, 1) THEN Frac(0, 1) ELSE F32Div(meth, cov),
         meth |-> meth, cov |-> cov]

\* The record of the Equal arm: sums, recomputed ratio, coordinates of rec1.
Aggregate(rec1, rec2) ==
    LET meth == F32Add(rec1.meth, rec2.meth)
        cov  == F32Add(rec1.cov, rec2.cov)
    IN  [coords |-> rec1.coords, ratio |-> F32Div(meth, cov), meth |-> meth, cov |-> cov]

\* println!("{}", rec); src[i] is the line of file i the record comes from (0: none).
Println(rec, src, goto) ==
    /\ out' = Append(out, Display(rec) \o <<NL>>)
    /\ emitted' = Append(emitted, [rec |-> rec, src |-> src])
    /\ pc' = goto
    /\ UNCHANGED <<disk, bf, maybe_rec, result, calls>>

BothPresent == maybe_rec[1] # None /\ maybe_rec[2] # None

\* Mutant: after an aggregate only reader 1 is advanced.
MatchEqual_AdvanceOne ==
    /\ pc = "match" /\ BothPresent
    /\ CoordsCmp(maybe_rec[1][1].coords, maybe_rec[2][1].coords) = "Equal"
    /\ Println(Aggregate(maybe_rec[1][1], maybe_rec[2][1]), <<bf[1].pos, bf[2].pos>>, "next1")

\* lib.rs 145-157, then 158-159
MatchEqual ==
    /\ pc = "match" /\ BothPresent
    /\ CoordsCmp(maybe_rec[1][1].coords, maybe_rec[2][1].coords) = "Equal"
    /\ Println(Aggregate(maybe_rec[1][1], maybe_rec[2][1]), <<bf[1].pos, bf[2].pos>>, "next1_next2")

\* Mutant: after the smaller record of file 1 both readers are advanced.
MatchLess_AdvanceBoth ==
    /\ pc = "match" /\ BothPresent
    /\ CoordsCmp(maybe_rec[1][1].coords, maybe_rec[2][1].coords) = "Less"
    /\ Println(maybe_rec[1][1], <<bf[1].pos, 0>>, "next1_next2")

\* lib.rs 161-162, then 163
MatchLess ==
    /\ pc = "match" /\ BothPresent
    /\ CoordsCmp(maybe_rec[1][1].coords, maybe_rec[2][1].coords) = "Less"
    /\ Println(maybe_rec[1][1], <<bf[1].pos, 0>>, "next1")

\* Mutant: after rec2 is printed, file1 is advanced instead of file2.
MatchGreater_AdvanceFile1 ==
    /\ pc = "match" /\ BothPresent
    /\ CoordsCmp(maybe_rec[1][1].coords, maybe_rec[2][1].coords) = "Greater"
    /\ Println(maybe_rec[2][1], <<0, bf[2].pos>>, "next1")

\* lib.rs 165-166, then 167
MatchGreater ==
    /\ pc = "match" /\ BothPresent
    /\ CoordsCmp(maybe_rec[1][1].coords, maybe_rec[2][1].coords) = "Greater"
    /\ Println(maybe_rec[2][1], <<0, bf[2].pos>>, "next2")

\* Mutant: the loop ends with Ok as soon as either reader is exhausted.
MatchOne_Break ==
    /\ pc = "match"
    /\ (maybe_rec[1] = None) # (maybe_rec[2] = None)
    /\ pc' = "return"
    /\ result' = [tag |-> "Ok", err |-> None]
    /\ UNCHANGED <<disk, bf, maybe_rec, out, emitted, calls>>

\* Mutant: with one record pending, only the reader that holds it is advanced.
MatchOne_PresentOnly ==
    /\ pc = "match"
    /\ \/ /\ maybe_rec[1] # None /\ maybe_rec[2] = None
          /\ Println(maybe_rec[1][1], <<bf[1].pos, 0>>, "next1")
       \/ /\ maybe_rec[1] = None /\ maybe_rec[2] # None
          /\ Println(maybe_rec[2][1], <<0, bf[2].pos>>, "next2")

\* lib.rs 170-171, then 172-173
MatchOne ==
    /\ pc = "match"
    /\ \/ /\ maybe_rec[1] # None /\ maybe_rec[2] = None
          /\ Println(maybe_rec[1][1], <<bf[1].pos, 0>>, "next1_next2")
       \/ /\ maybe_rec[1] = None /\ maybe_rec[2] # None
          /\ Println(maybe_rec[2][1], <<0, bf[2].pos>>, "next1_next2")

\* lib.rs 175-177, 180
MatchNone ==
    /\ pc = "match" /\ maybe_rec[1] = None /\ maybe_rec[2] = None
    /\ pc' = "return"
    /\ result' = [tag |-> "Ok", err |-> None]
    /\ UNCHANGED <<disk, bf, maybe_rec, out, emitted, calls>>

\* lib.rs 158, 163, 172
Next1 ==
    \/ pc = "next1_next2" /\ \E io \in IoOutcomes : CallNext(1, io, "next2")
    \/ pc = "next1" /\ \E io \in IoOutcomes : CallNext(1, io, "match")

\* lib.rs 159, 167, 173
Next2 == pc = "next2" /\ \E io \in IoOutcomes : CallNext(2, io, "match")

Next ==
    \/ Prime1
    \/ Prime2
    \/ MatchEqual
    \/ MatchLess
    \/ MatchGreater
    \/ MatchOne
    \/ MatchNone
    \/ Next1
    \/ Next2

Spec == Init /\ [][Next]_vars

----------------------------------------------------------------------------
(* Vocabulary of the properties                                            *)

\* What a fresh reader makes of a line.
Scan(line) == Annotate(BedFile_new("scan"), line)

\* A line that yields a record.
WellFormedLine(line) == IsValidUtf8(line) /\ Scan(line).tag = "Ok"

WellFormed(i) == \A k \in 1..Len(disk[i]) : WellFormedLine(disk[i][k])

\* The record and the coordinate key of line k of file i (a well-formed line).
RecAt(i, k) == Scan(disk[i][k]).rec[1]

KeyAt(i, k) == RecAt(i, k).coords

\* The order of coordinate keys: chrom first, then start, then end.
KeyLess(a, b) ==
    \/ StrCmp(a.chrom, b.chrom) = "Less"
    \/ a.chrom = b.chrom /\ a.start < b.start
    \/ a.chrom = b.chrom /\ a.start = b.start /\ a.end < b.end

\* Keys strictly ascending / never descending along file i.
StrictlySorted(i) ==
    \A k \in 1..(Len(disk[i]) - 1) : KeyLess(KeyAt(i, k), KeyAt(i, k + 1))

NonDecreasing(i) ==
    \A k \in 1..(Len(disk[i]) - 1) : ~KeyLess(KeyAt(i, k + 1), KeyAt(i, k))

Keys(i) == { KeyAt(i, k) : k \in 1..Len(disk[i]) }

\* The coordinate key read off printed line k.
OutKey(k) ==
    LET p == split_ascii_whitespace(out[k])
    IN  [chrom |-> p[1], start |-> ParseU64(p[2]).val, end |-> ParseU64(p[3]).val]

OutKeys == { OutKey(k) : k \in 1..Len(out) }

ReturnedOk == pc = "return" /\ result.tag = "Ok"

\* The number of read_line calls made on file i.
Reads(i) == Cardinality({ k \in 1..Len(calls) : calls[k].reader = i /\ calls[k].rd # "none" })

----------------------------------------------------------------------------
(* C1 *)

\* C1: for two well-formed inputs whose keys are each strictly ascending, the
\* printed records are strictly ascending by (chrom, start, end) at every
\* point of the merge, so no key is printed twice.
C1_SortPreservation ==
    (Len(out) >= 2 /\ WellFormed(1) /\ WellFormed(2)
       /\ StrictlySorted(1) /\ StrictlySorted(2))
        => \A k \in 1..(Len(out) - 1) : KeyLess(OutKey(k), OutKey(k + 1))

\* Three distinct keys, interleaved between the two files, all printed.
C1_Witness ==
    /\ WellFormed(1) /\ WellFormed(2) /\ StrictlySorted(1) /\ StrictlySorted(2)
    /\ Len(disk[1]) = 2 /\ Len(disk[2]) = 1
    /\ ReturnedOk /\ Len(out) = 3
    /\ emitted[2].src = <<0, 1>>

----------------------------------------------------------------------------
(* C2 *)

\* C2 as stated: with keys non-decreasing along each well-formed file, a
\* successful merge prints every key of the union exactly once.
C2_NonDecreasingUnion ==
    (ReturnedOk /\ WellFormed(1) /\ WellFormed(2) /\ NonDecreasing(1) /\ NonDecreasing(2))
        => /\ OutKeys = Keys(1) \cup Keys(2)
           /\ Len(out) = Cardinality(Keys(1) \cup Keys(2))

\* C2 (amended): with keys strictly ascending along each well-formed file, a
\* successful merge prints exactly the keys of the union of the two key sets,
\* each of them once.
C2_StrictUnion ==
    (ReturnedOk /\ WellFormed(1) /\ WellFormed(2) /\ StrictlySorted(1) /\ StrictlySorted(2))
        => /\ OutKeys = Keys(1) \cup Keys(2)
           /\ Len(out) = Cardinality(Keys(1) \cup Keys(2))

\* A shared key and a key of one file only: three lines in, two lines out.
C2_Witness ==
    /\ ReturnedOk /\ WellFormed(1) /\ WellFormed(2)
    /\ StrictlySorted(1) /\ StrictlySorted(2)
    /\ Len(disk[1]) = 2 /\ Len(disk[2]) = 1
    /\ Keys(2) \subseteq Keys(1)
    /\ Len(out) = 2

----------------------------------------------------------------------------
(* C3 *)

----------------------------------------------------------------------------
(* C4 *)

\* A line without its terminator.
Chomp(line) ==
    IF line # <<>> /\ line[Len(line)] = NL THEN SubSeq(line, 1, Len(line) - 1) ELSE line

\* Printed line k comes from line src[i] of file i alone.
FromOnly(k, i) == emitted[k].src[i] # 0 /\ emitted[k].src[3 - i] = 0

SortedWellFormed ==
    WellFormed(1) /\ WellFormed(2) /\ StrictlySorted(1) /\ StrictlySorted(2)

\* Line p of file i has a key the other file does not have.
KeyInOneOnly(i, p) == KeyAt(i, p) \notin Keys(3 - i)

\* C4 as stated: the line printed for a key present in exactly one of the
\* sorted, well-formed inputs is the input line, byte for byte, apart from the
\* line terminator.
C4_ByteIdentical ==
    (out # <<>> /\ SortedWellFormed)
        => \A k \in 1..Len(out) : \A i \in Readers :
             (FromOnly(k, i) /\ KeyInOneOnly(i, emitted[k].src[i]))
                => Chomp(out[k]) = Chomp(disk[i][emitted[k].src[i]])

\* C4 (amended): the line printed for a key present in exactly one of the
\* sorted, well-formed inputs has exactly six tab-separated fields; its chrom
\* is the input's first field and its start, end, ratio, meth and cov read
\* back to the values of the input's fields 2-6 (ratio is not recomputed).
\* The separators, the spelling of the numbers and any field after the sixth
\* are not kept.  After a successful merge every such key has been printed.
C4_Passthrough ==
    ((out # <<>> \/ ReturnedOk) /\ SortedWellFormed)
        => /\ \A k \in 1..Len(out) : \A i \in Readers :
                (FromOnly(k, i) /\ KeyInOneOnly(i, emitted[k].src[i]))
                   => LET line == disk[i][emitted[k].src[i]]
                          f == Take(split_ascii_whitespace(line), 6)
                          g == split_ascii_whitespace(out[k])
                      IN  /\ Len(g) = 6
                          /\ out[k] = Join(g, TAB)
                          /\ g[1] = f[1]
                          /\ ParseU64(g[2]) = ParseU64(f[2])
                          /\ ParseU64(g[3]) = ParseU64(f[3])
                          /\ ParseF32(g[4]) = ParseF32(f[4])
                          /\ ParseF32(g[5]) = ParseF32(f[5])
                          /\ ParseF32(g[6]) = ParseF32(f[6])
           /\ ReturnedOk
                => \A i \in Readers : \A p \in 1..Len(disk[i]) :
                     KeyInOneOnly(i, p)
                        => \E k \in 1..Len(out) : FromOnly(k, i) /\ emitted[k].src[i] = p

\* A tab-separated line printed as it stands, next to a line with a 7th
\* field and other spellings of its numbers printed in another form.
C4_Witness ==
    /\ SortedWellFormed /\ ReturnedOk /\ Len(out) = 2
    /\ \E k \in 1..2 : \E i \in Readers :
         /\ FromOnly(k, i) /\ KeyInOneOnly(i, emitted[k].src[i])
         /\ Chomp(out[k]) = Chomp(disk[i][emitted[k].src[i]])
    /\ \E k \in 1..2 : \E i \in Readers :
         /\ FromOnly(k, i) /\ KeyInOneOnly(i, emitted[k].src[i])
         /\ Len(split_ascii_whitespace(disk[i][emitted[k].src[i]])) = 7
         /\ Chomp(out[k]) # Chomp(disk[i][emitted[k].src[i]])

----------------------------------------------------------------------------
(* C5 *)

SelfMerge == disk[1] = disk[2] /\ WellFormed(1) /\ StrictlySorted(1)

\* C5 as stated: pooling a well-formed sorted file with a copy of itself
\* prints one record per key, in order, with meth and cov doubled and the
\* ratio column of the input line.
C5_RatioColumnKept ==
    (SelfMerge /\ ReturnedOk)
        => /\ Len(emitted) = Len(disk[1])
           /\ \A k \in 1..Len(emitted) :
                /\ OutKey(k) = KeyAt(1, k)
                /\ emitted[k].rec.meth = F32Add(RecAt(1, k).meth, RecAt(1, k).meth)
                /\ emitted[k].rec.cov = F32Add(RecAt(1, k).cov, RecAt(1, k).cov)
                /\ emitted[k].rec.ratio = RecAt(1, k).ratio

\* C5 (amended): pooling a well-formed sorted file with a copy of itself
\* prints one record per key, in the file's order, with no new or missing
\* keys; meth and cov are twice the input values and the ratio is meth / cov
\* of the input line, which is its ratio column only where that column was
\* meth / cov already.
C5_SelfMerge ==
    (SelfMerge /\ ReturnedOk)
        => /\ Len(emitted) = Len(disk[1])
           /\ \A k \in 1..Len(emitted) :
                /\ OutKey(k) = KeyAt(1, k)
                /\ emitted[k].src = <<k, k>>
                /\ emitted[k].rec.meth.n * RecAt(1, k).meth.d
                     = 2 * RecAt(1, k).meth.n * emitted[k].rec.meth.d
                /\ emitted[k].rec.cov.n * RecAt(1, k).cov.d
                     = 2 * RecAt(1, k).cov.n * emitted[k].rec.cov.d
                /\ emitted[k].rec.ratio = F32Div(RecAt(1, k).meth, RecAt(1, k).cov)
                /\ out[k] = Display(emitted[k].rec) \o <<NL>>
                /\ (emitted[k].rec.ratio = RecAt(1, k).ratio)
                     <=> (RecAt(1, k).ratio = F32Div(RecAt(1, k).meth, RecAt(1, k).cov))

\* A two-line file pooled with its copy: one line keeps its ratio column,
\* the other does not.
C5_Witness ==
    /\ SelfMerge /\ ReturnedOk /\ Len(disk[1]) = 2 /\ Len(emitted) = 2
    /\ \E k \in 1..2 : emitted[k].rec.ratio = RecAt(1, k).ratio
    /\ \E k \in 1..2 : emitted[k].rec.ratio # RecAt(1, k).ratio

----------------------------------------------------------------------------
(* C6 *)

\* The line `chr1 100 200 0.5 5 10`.
ExampleLine == Join(<<chr1, t100, t200, tHalf, t5, t10>>, SP)

ExampleInputs == disk = << <<ExampleLine>>, <<ExampleLine>> >>

\* C6 as stated: pooling `chr1 100 200 0.5 5 10` with itself prints the one
\* record chr1 100 200 1.0 10 20.
C6_RatioOne ==
    (ExampleInputs /\ ReturnedOk)
        => /\ Len(emitted) = 1
           /\ emitted[1].rec = [coords |-> [chrom |-> chr1, start |-> 100, end |-> 200],
                                ratio |-> Frac(1, 1), meth |-> Frac(10, 1), cov |-> Frac(20, 1)]

\* C6 (amended): pooling `chr1 100 200 0.5 5 10` with itself prints exactly
\* one record, chr1 100 200 0.5 10 20 (the ratio is 10 / 20), as the
\* tab-separated line of these six fields.
C6_RatioHalf ==
    (ExampleInputs /\ ReturnedOk)
        => /\ Len(emitted) = 1 /\ Len(out) = 1
           /\ emitted[1].rec = [coords |-> [chrom |-> chr1, start |-> 100, end |-> 200],
                                ratio |-> Frac(1, 2), meth |-> Frac(10, 1), cov |-> Frac(20, 1)]
           /\ out[1] = Join(<<chr1, t100, t200, tHalf, t10, <<"2", "0">> >>, TAB)

C6_Witness == ExampleInputs /\ ReturnedOk /\ Len(out) = 1

----------------------------------------------------------------------------
(* C7 *)

\* A line of text with fewer than 6 whitespace-delimited fields.
ShortLine(line) == IsValidUtf8(line) /\ Len(split_ascii_whitespace(line)) < 6

\* Line n of file i is short, the lines before it are well-formed, and the
\* reader has read line n.
ShortLineRead(i, n) ==
    /\ bf[i].pos >= n
    /\ ShortLine(disk[i][n])
    /\ \A m \in 1..(n - 1) : WellFormedLine(disk[i][m])

\* C7: when line n of an input has fewer than 6 fields (a blank line has 0)
\* and lines 1..n-1 are well-formed, the call of next that reads line n
\* returns the Parse error with the input's path, line number n and the number
\* of fields found, whatever the fields are; sync2 returns that error, reads
\* no further and has printed no record that comes from line n or a later
\* line of that input.
C7_ShortLine ==
    \A i \in Readers : \A n \in 1..Len(disk[i]) :
        ShortLineRead(i, n)
           => /\ pc = "return"
              /\ result = [tag |-> "Err",
                           err |-> Some(ParseError(Filename(i), n, "columns",
                                                   Len(split_ascii_whitespace(disk[i][n]))))]
              /\ calls[Len(calls)].reader = i
              /\ calls[Len(calls)].err = result.err
              /\ bf[i].pos = n /\ bf[i].lineno = n
              /\ \A k \in 1..Len(emitted) : emitted[k].src[i] < n

\* The short line is line 2, its second field is no integer, and a record of
\* line 1 has been printed.
C7_Witness ==
    \E i \in Readers :
        /\ Len(disk[i]) >= 2
        /\ ShortLineRead(i, 2)
        /\ Len(split_ascii_whitespace(disk[i][2])) = 4
        /\ ~ParseU64(split_ascii_whitespace(disk[i][2])[2]).ok
        /\ \E k \in 1..Len(emitted) : emitted[k].src[i] = 1

----------------------------------------------------------------------------
(* C8 *)

\* C8: when a call of next returns an error (a priming read included), it is
\* the last call made on either reader, sync2 has returned that very error,
\* and nothing was printed after the call; if the call is a priming read,
\* nothing was printed at all, and if it is the first priming read, file 2
\* was never read.  sync2 returns an error in no other way.
C8_FailFast ==
    /\ \A k \in 1..Len(calls) :
         calls[k].tag = "Err"
            => /\ k = Len(calls)
               /\ pc = "return"
               /\ result = [tag |-> "Err", err |-> calls[k].err]
               /\ Len(out) = calls[k].nout
               /\ (k <= 2 => out = <<>>)
               /\ (k = 1 => Reads(2) = 0 /\ bf[2] = BedFile_new(Filename(2)))
    /\ result.tag = "Err" => (calls # <<>> /\ calls[Len(calls)].tag = "Err")

\* An error after a record was printed, with lines of the other file unread.
C8_Witness ==
    /\ result.tag = "Err" /\ Len(out) >= 1
    /\ \E i \in Readers :
         /\ calls[Len(calls)].reader = i
         /\ bf[3 - i].pos < Len(disk[3 - i])

----------------------------------------------------------------------------
(* C9 *)

\* A call of next was made in this step.
Called == Len(calls') = Len(calls) + 1

\* C9: a call of next that returns None leaves the end-of-file flag set; on a
\* reader whose flag is set, a call of next returns Ok(None) without a
\* read_line call and leaves the reader (lineno, last, the flag) as it was; no
\* step changes such a reader.
C9_StickyEof ==
    [][ /\ \A i \in Readers : bf[i].at_eof => bf'[i] = bf[i]
        /\ Called =>
             LET c == calls'[Len(calls')]
             IN  /\ (c.tag = "Ok" /\ c.rec = None) => bf'[c.reader].at_eof
                 /\ bf[c.reader].at_eof
                      => (c.tag = "Ok" /\ c.rec = None /\ c.rd = "none")
      ]_vars

\* A reader that returned None twice, the second time without a read.
C9_Witness ==
    \E k \in 1..Len(calls) : \E m \in 1..Len(calls) :
        /\ k < m /\ calls[k].reader = calls[m].reader
        /\ calls[k].tag = "Ok" /\ calls[k].rec = None /\ calls[k].rd = "eof"
        /\ calls[m].tag = "Ok" /\ calls[m].rec = None /\ calls[m].rd = "none"

----------------------------------------------------------------------------
(* C10 *)

\* C10 as stated: a reader's lineno is the number of lines it has consumed
\* from the stream.
C10_LinenoIsLinesConsumed == \A i \in Readers : bf[i].lineno = bf[i].pos

\* The number of calls on file i in which read_line returned a line.
LinesRead(log, i) ==
    Cardinality({ k \in 1..Len(log) : log[k].reader = i /\ log[k].rd = "line" })

\* C10 (amended): a reader's lineno is the number of lines read_line has
\* returned to it.  A call of next in which read_line returns a line adds
\* exactly 1 to lineno, whether the line yields a record or a Parse error; a
\* call that hits end-of-file or fails with an I/O error leaves lineno
\* unchanged, and an I/O error does not set the end-of-file flag.  A read that
\* fails on a line that is not valid UTF-8 has consumed that line, so lineno
\* is then one less than the lines consumed.  Every Parse error sync2 returns
\* carries the 1-based index of the offending line.
C10_LineCounter ==
    [][ /\ \A i \in Readers : bf'[i].lineno = LinesRead(calls', i)
        /\ ~Called => bf' = bf
        /\ Called =>
             LET c == calls'[Len(calls')]
                 i == c.reader
             IN  /\ bf'[3 - i] = bf[3 - i]
                 /\ c.rd = "line"
                      => /\ bf'[i].lineno = bf[i].lineno + 1
                         /\ bf'[i].pos = bf[i].pos + 1
                         /\ bf'[i].lineno = bf'[i].pos
                         /\ bf'[i].last = Some(disk[i][bf'[i].pos])
                 /\ c.rd \in {"none", "eof"}
                      => /\ bf'[i].lineno = bf[i].lineno
                         /\ bf'[i].pos = bf[i].pos
                 /\ c.rd = "err"
                      => /\ c.tag = "Err" /\ c.err[1].kind = "File"
                         /\ bf'[i].lineno = bf[i].lineno
                         /\ bf'[i].at_eof = FALSE
                         /\ bf'[i].pos = bf[i].pos
                              + (IF c.err[1].what = "InvalidData" THEN 1 ELSE 0)
                 /\ (c.tag = "Err" /\ c.err[1].kind = "Parse")
                      => /\ c.rd = "line"
                         /\ c.err[1].filename = Filename(i)
                         /\ c.err[1].lineno = bf'[i].pos
                         /\ IsValidUtf8(disk[i][bf'[i].pos])
                         /\ ~WellFormedLine(disk[i][bf'[i].pos])
      ]_vars

\* A Parse error on line 2 of a file.
C10_Witness ==
    /\ result.tag = "Err" /\ result.err[1].kind = "Parse"
    /\ result.err[1].lineno = 2

----------------------------------------------------------------------------
(* C11 *)

\* The spellings of fields 2-6 and of a seventh field that a line under
\* test is made of.
IntFields == { t100, <<"+">> \o t100, t200, tX, tHalf }

FloatFields == { tHalf, t5, t5 \o <<".", "0">>, <<".", "5">>, tX, <<"1", ".", "2", ".", "3">> }

\* Lines of 6 or 7 fields; field 3 and field 6 vary less to keep the set small.
ParseLines ==
    { Join(<<chr1, f2, f3, f4, f5, f6>> \o extra, SP) :
        f2 \in IntFields, f3 \in {t200, tX}, f4 \in FloatFields, f5 \in {t5, tX},
        f6 \in {t10, tX}, extra \in { <<>>, << tX >>, << t5 >> } }

\* A caller of BedFile::next that reads file 1 to its end, going on after a
\* Parse error.  File 1 is a line under test, alone or after a well-formed line.
ParseInit ==
    /\ \E line \in ParseLines : \E prefix \in { <<>>, <<ExampleLine>> } :
         disk = << prefix \o <<line>>, <<>> >>
    /\ bf = [i \in Readers |-> BedFile_new(Filename(i))]
    /\ maybe_rec = [i \in Readers |-> None]
    /\ pc = "caller"
    /\ result = [tag |-> "Running", err |-> None]
    /\ out = <<>>
    /\ emitted = <<>>
    /\ calls = <<>>

CallerNext ==
    /\ pc = "caller" /\ ~bf[1].at_eof
    /\ LET r == BedFile_next(bf[1], disk[1], "ok")
       IN  /\ bf' = [bf EXCEPT ![1] = r.self]
           /\ maybe_rec' = [maybe_rec EXCEPT ![1] = r.rec]
           /\ calls' = Append(calls, [reader |-> 1, tag |-> r.tag, rec |-> r.rec,
                                       err |-> r.err, rd |-> r.rd, nout |-> Len(out)])
    /\ UNCHANGED <<disk, pc, result, out, emitted>>

ParseSpec == ParseInit /\ [][CallerNext]_vars

\* The spellings that are unsigned integers, and their values.
IsIntText(tok) == tok \in { t100, <<"+">> \o t100, t200 }

IntValue(tok) == IF tok = t200 THEN 200 ELSE 100

\* The spellings that are floats, and their values.
IsFloatText(tok) == tok \in { tHalf, t5, t5 \o <<".", "0">>, <<".", "5">>, t10 }

FloatValue(tok) ==
    IF tok \in { tHalf, <<".", "5">> } THEN [n |-> 1, d |-> 2]
    ELSE IF tok = t10 THEN [n |-> 10, d |-> 1]
    ELSE [n |-> 5, d |-> 1]

\* The type the message names for the leftmost field of f that fails.
ExpectedOf(f) ==
    IF ~IsIntText(f[2]) \/ ~IsIntText(f[3]) THEN "integer" ELSE "float"

\* C11: when next has just read a line of at least 6 fields, it returned a
\* record iff fields 2 and 3 are unsigned integers and fields 4, 5 and 6 are
\* floats; the record holds the values of the first 6 fields, whatever follows
\* them; otherwise it returned the Parse error with the reader's path and
\* line number, whose message names integer when field 2 or 3 fails and float
\* when the leftmost failing field is field 4, 5 or 6.
C11_ParseOutcome ==
    (calls # <<>> /\ calls[Len(calls)].rd = "line")
        => LET c == calls[Len(calls)]
               f == split_ascii_whitespace(disk[1][bf[1].pos])
               good == /\ IsIntText(f[2]) /\ IsIntText(f[3])
                       /\ IsFloatText(f[4]) /\ IsFloatText(f[5]) /\ IsFloatText(f[6])
           IN  Len(f) >= 6
                 => /\ (c.tag = "Ok") <=> good
                    /\ good => c.rec = Some([coords |-> [chrom |-> f[1],
                                                          start |-> IntValue(f[2]),
                                                          end |-> IntValue(f[3])],
                                             ratio |-> FloatValue(f[4]),
                                             meth |-> FloatValue(f[5]),
                                             cov |-> FloatValue(f[6])])
                    /\ ~good => c.err = Some(ParseError(Filename(1), bf[1].lineno,
                                                        ExpectedOf(f), 0))
                    /\ bf[1].lineno = bf[1].pos

\* Line 2 has a seventh field, its field 3 is no integer and its field 5 no
\* float: the message names the integer.
C11_Witness ==
    /\ calls # <<>> /\ calls[Len(calls)].rd = "line" /\ bf[1].pos = 2
    /\ LET f == split_ascii_whitespace(disk[1][2])
       IN  /\ Len(f) = 7 /\ IsIntText(f[2]) /\ ~IsIntText(f[3]) /\ ~IsFloatText(f[5])
           /\ calls[Len(calls)].err = Some(ParseError(Filename(1), 2, "integer", 0))

----------------------------------------------------------------------------
(* C12 *)

\* Both records are pending and the key of reader i is below the other's.
Below(i) ==
    /\ pc = "match" /\ BothPresent
    /\ KeyLess(maybe_rec[i][1].coords, maybe_rec[3 - i][1].coords)

\* sync2 is about to advance reader i alone: no call of next has been made
\* since the last line was printed.
AdvancingOnly(i) ==
    \/ i = 1 /\ pc = "next1"
    \/ i = 2 /\ pc = "next2" /\ (calls = <<>> \/ calls[Len(calls)].nout < Len(out))

\* C12: in an iteration where both records are pending and the key of one
\* reader is below the other's, sync2 prints that reader's record as it is and
\* then calls next on that reader only; the other reader (lineno, last,
\* end-of-file flag) and its pending record are the same before the print,
\* after it and after the call, so the other record is still pending when the
\* next iteration starts.
C12_UnequalKeyFrame ==
    [][ \A i \in Readers :
          /\ Below(i)
               => /\ out' = Append(out, Display(maybe_rec[i][1]) \o <<NL>>)
                  /\ ~Called /\ bf' = bf /\ maybe_rec' = maybe_rec
                  /\ AdvancingOnly(i)'
          /\ AdvancingOnly(i)
               => /\ Called /\ calls'[Len(calls')].reader = i
                  /\ out' = out
                  /\ bf'[3 - i] = bf[3 - i]
                  /\ maybe_rec'[3 - i] = maybe_rec[3 - i]
                  /\ maybe_rec'[3 - i] # None
                  /\ pc' \in {"match", "return"}
                  /\ pc' = "match" <=> calls'[Len(calls')].tag = "Ok"
          /\ (pc = "match" /\ AdvancingOnly(i)') => Below(i)
      ]_vars

\* After line 1 of file 1 was printed alone and reader 1 advanced, both
\* records are pending again and reader 2 still holds its first line.
C12_Witness ==
    /\ pc = "match" /\ BothPresent
    /\ Len(emitted) = 1 /\ emitted[1].src = <<1, 0>>
    /\ bf[1].pos = 2 /\ bf[2].pos = 1
    /\ Len(calls) = 3 /\ calls[3].reader = 1

----------------------------------------------------------------------------
(* C13 *)

\* The printed records that come from file i, in the order printed.
FromFile(log, i) == SelectSeq(log, LAMBDA e : e.src[i] # 0)

\* They are lines 1, 2, 3, ... of file i: each once, in input order.
InInputOrder(log, i) ==
    \A k \in 1..Len(FromFile(log, i)) : FromFile(log, i)[k].src[i] = k

\* Only the record of reader i is pending.
OnlyPending(i) == pc = "match" /\ maybe_rec[i] # None /\ maybe_rec[3 - i] = None

\* C13: a reader without a pending record is at end-of-file (an input of zero
\* lines gets there by its priming read, without error).  From then on each
\* iteration prints the pending record of the other reader as it is, then calls
\* next on reader 1 and on reader 2; the call on the exhausted reader returns
\* None without a read and leaves it unchanged.  The records printed from a
\* file are its lines in input order, each once.  Pooling a well-formed file
\* with an empty one prints exactly that file's records in order and, unless a
\* read fails with an I/O error, returns Ok.
C13_Drain ==
    [][ \A i \in Readers :
          /\ OnlyPending(i)
               => /\ bf[3 - i].at_eof
                  /\ maybe_rec[i][1] = RecAt(i, bf[i].pos)
                  /\ out' = Append(out, Display(maybe_rec[i][1]) \o <<NL>>)
                  /\ emitted'[Len(emitted')].src[i] = bf[i].pos
                  /\ emitted'[Len(emitted')].src[3 - i] = 0
                  /\ ~Called /\ bf' = bf /\ maybe_rec' = maybe_rec
                  /\ pc' = "next1_next2"
          /\ pc = "next1_next2"
               => /\ Called /\ calls'[Len(calls')].reader = 1
                  /\ pc' \in {"next2", "return"}
          /\ (pc = "next2" /\ ~AdvancingOnly(2))
               => /\ Called /\ calls'[Len(calls')].reader = 2
                  /\ pc' \in {"match", "return"}
          /\ (Called /\ calls'[Len(calls')].reader = i /\ bf[i].at_eof)
               => /\ calls'[Len(calls')].rd = "none"
                  /\ calls'[Len(calls')].tag = "Ok"
                  /\ calls'[Len(calls')].rec = None
                  /\ bf' = bf /\ maybe_rec'[i] = None
          /\ InInputOrder(emitted', i)
          /\ (disk[3 - i] = <<>> /\ WellFormed(i))
               => /\ \A k \in 1..Len(emitted') :
                       /\ emitted'[k].src[i] = k
                       /\ emitted'[k].rec = RecAt(i, k)
                       /\ out'[k] = Display(RecAt(i, k)) \o <<NL>>
                  /\ result'.tag = "Err" => result'.err[1].kind = "File"
                  /\ ReturnedOk' => Len(out') = Len(disk[i])
      ]_vars

\* File 1 is empty and the three records of file 2 have been printed, each
\* after a call on reader 1 that read nothing.
C13_Witness ==
    /\ ReturnedOk /\ disk[1] = <<>> /\ Len(disk[2]) = 3 /\ Len(out) = 3
    /\ Cardinality({ k \in 1..Len(calls) : calls[k].reader = 1 /\ calls[k].rd = "none" }) = 3

----------------------------------------------------------------------------
(* C14 *)

\* The positions of sync2 at which the next thing it does is a call of next.
Reading == pc \in {"prime1", "prime2", "next1", "next2", "next1_next2"}

ReadStep == Prime1 \/ Prime2 \/ Next1 \/ Next2

\* The loop head with a record pending: the next thing sync2 does is a print.
Printing == pc = "match" /\ (maybe_rec[1] # None \/ maybe_rec[2] # None)

PrintStep == MatchEqual \/ MatchLess \/ MatchGreater \/ MatchOne

\* sync2 is one sequential function over two regular files: a step that can be
\* taken is taken.  The last two conjuncts are WF_vars(ReadStep) and
\* WF_vars(PrintStep) with their enabling conditions written out: a call of
\* next is possible exactly at the positions of Reading, whatever the file
\* holds, and exactly one arm prints when a record is pending.
FairSpec ==
    /\ Spec
    /\ WF_vars(MatchNone)
    /\ []<>~Reading \/ []<><<ReadStep>>_vars
    /\ []<>~Printing \/ []<><<PrintStep>>_vars

\* The calls of next made in iteration n of the loop (the one that printed
\* line n of the output).
CallsOf(n) == { k \in 1..Len(calls) : calls[k].nout = n }

\* Iteration n advanced a reader whose record it had just printed: that call
\* read the reader's next line or met end-of-file.
Retired(n) ==
    \E k \in CallsOf(n) : /\ emitted[n].src[calls[k].reader] # 0
                          /\ calls[k].rd \in {"line", "eof"}

\* The statement as written: an iteration that does not return has read a line.
C14_IterationConsumesLine ==
    (pc = "match" /\ out # <<>>)
        => \E k \in CallsOf(Len(out)) : calls[k].rd = "line"

\* C14: sync2 returns, with Ok or with an error.  An iteration that does not
\* return prints one record and advances a reader whose pending record it
\* printed; that call reads the reader's next line or meets end-of-file, so
\* there are at most as many iterations as lines.  Ok is returned only from
\* the arm where neither reader has a pending record, and then both readers
\* are at end-of-file and every line of both files has been read.
C14_Termination ==
    /\ <>(pc = "return" /\ result.tag \in {"Ok", "Err"})
    /\ []((pc = "match" /\ out # <<>>) => Retired(Len(out)))
    /\ [](Len(out) <= Len(disk[1]) + Len(disk[2]))
    /\ [](ReturnedOk => \A i \in Readers : /\ maybe_rec[i] = None
                                           /\ bf[i].at_eof
                                           /\ bf[i].pos = Len(disk[i]))
    /\ [][ (result'.tag = "Ok" /\ result.tag # "Ok")
             => (pc = "match" /\ maybe_rec[1] = None /\ maybe_rec[2] = None) ]_vars

\* Two one-line files with different keys: both lines are read by the priming
\* calls, and the two iterations that follow read no line.
C14_Witness ==
    /\ ReturnedOk /\ Len(disk[1]) = 1 /\ Len(disk[2]) = 1 /\ Len(out) = 2
    /\ \A k \in CallsOf(1) \cup CallsOf(2) : calls[k].rd # "line"

----------------------------------------------------------------------------
(* C15 *)

\* The record pending on reader i has been printed, alone or inside the sum of
\* the two pending records, by the latest print.
PendingPrinted(i) ==
    /\ emitted # <<>>
    /\ LET e == emitted[Len(emitted)]
       IN  /\ e.src[i] = bf[i].pos
           /\ \/ e.src[3 - i] = 0 /\ e.rec = maybe_rec[i][1]
              \/ /\ e.src[3 - i] # 0
                 /\ e.rec = Aggregate(RecAt(1, e.src[1]), RecAt(2, e.src[2]))

\* No print so far took the record from line n of file i.
NotYetPrinted(i, n) == \A k \in 1..Len(emitted) : emitted[k].src[i] # n

\* C15: each reader has at most one pending record, until sync2 returns the
\* record of the line it read last.  While sync2 is choosing what to print, a pending record has not
\* been printed yet; and whenever next is called on a reader that has a pending
\* record, the latest print has printed that record, alone or in an aggregate.
C15_PendingBeforeRead ==
    [][ \A i \in Readers :
          /\ Len(maybe_rec'[i]) <= 1
          /\ (pc' # "return" /\ maybe_rec'[i] # None)
               => maybe_rec'[i][1] = RecAt(i, bf'[i].pos)
          /\ (pc' = "match" /\ maybe_rec'[i] # None)
               => NotYetPrinted(i, bf'[i].pos)
          /\ (Called /\ calls'[Len(calls')].reader = i /\ maybe_rec[i] # None)
               => PendingPrinted(i)
      ]_vars

\* An aggregate was printed from line 1 of each file, and then next was called
\* on reader 1 and on reader 2, each of which held one of the two records.
C15_Witness ==
    /\ pc = "match" /\ Len(emitted) = 1 /\ emitted[1].src = <<1, 1>>
    /\ Len(calls) = 4 /\ calls[3].reader = 1 /\ calls[4].reader = 2
    /\ calls[3].nout = 1 /\ calls[4].nout = 1
    /\ BothPresent

----------------------------------------------------------------------------
(* C16 *)

IsFinite(v) == v.d # 0

\* Both records are pending with the same key and their coverages sum to zero.
ZeroCoverage ==
    /\ pc = "match" /\ BothPresent
    /\ maybe_rec[1][1].coords = maybe_rec[2][1].coords
    /\ F32Add(maybe_rec[1][1].cov, maybe_rec[2][1].cov) = Frac(0, 1)

\* The readers called in the iteration that printed output line n.
ReadersOf(log, n) == { log[k].reader : k \in { c \in 1..Len(log) : log[c].nout = n } }

\* C16: when the two pending records have the same key and their coverages sum
\* to zero, sync2 does not return: it prints one record with that key, the sum
\* of the meth values, coverage zero and a ratio that is not finite, shown as
\* the text NaN or inf, and goes on to call next on both readers as after any
\* other aggregate.
C16_ZeroCoverage ==
    [][ /\ ZeroCoverage
          => /\ result' = result /\ pc' = "next1_next2"
             /\ bf' = bf /\ maybe_rec' = maybe_rec
             /\ Len(emitted') = Len(emitted) + 1
             /\ LET e == emitted'[Len(emitted')].rec
                IN  /\ e.coords = maybe_rec[1][1].coords
                    /\ e.meth = F32Add(maybe_rec[1][1].meth, maybe_rec[2][1].meth)
                    /\ e.cov = Frac(0, 1)
                    /\ ~IsFinite(e.ratio)
                    /\ FormatF32(e.ratio) \in {<<"N", "a", "N">>, <<"i", "n", "f">>}
                    /\ out' = Append(out, Display(e) \o <<NL>>)
        /\ \A n \in 1..Len(emitted') :
             ( /\ emitted'[n].src[1] # 0 /\ emitted'[n].src[2] # 0
               /\ ~IsFinite(emitted'[n].rec.ratio)
               /\ (pc' = "match" \/ Len(emitted') > n) )
             => ReadersOf(calls', n) = {1, 2}
      ]_vars

\* The first lines of the two files have the same key and coverage zero; their
\* aggregate was printed with ratio inf, and the merge went on to print the
\* second line of one file and returned Ok.
C16_Witness ==
    /\ ReturnedOk /\ Len(emitted) = 2
    /\ emitted[1].src = <<1, 1>> /\ emitted[1].rec.ratio = Frac(1, 0)
    /\ emitted[1].rec.cov = Frac(0, 1)

----------------------------------------------------------------------------
(* C17 *)

\* The sum of two finite values as numbers, without rounding.
ExactAdd(a, b) == Frac(a.n * b.d + b.n * a.d, a.d * b.d)

RECURSIVE SumSeq(_)
SumSeq(s) == IF s = <<>> THEN Frac(0, 1) ELSE ExactAdd(Head(s), SumSeq(Tail(s)))

\* The records of the lines read so far, the records printed so far, and the
\* records held by sync2 that no print has taken yet.
ConsumedRecs ==
    [n \in 1..bf[1].pos |-> RecAt(1, n)] \o [n \in 1..bf[2].pos |-> RecAt(2, n)]

EmittedRecs == [k \in 1..Len(emitted) |-> emitted[k].rec]

Unprinted(i) ==
    IF maybe_rec[i] # None /\ NotYetPrinted(i, bf[i].pos) THEN maybe_rec[i] ELSE <<>>

MethOf(recs) == SumSeq([k \in 1..Len(recs) |-> recs[k].meth])
CovOf(recs) == SumSeq([k \in 1..Len(recs) |-> recs[k].cov])

TotalsConserved ==
    /\ MethOf(EmittedRecs \o Unprinted(1) \o Unprinted(2)) = MethOf(ConsumedRecs)
    /\ CovOf(EmittedRecs \o Unprinted(1) \o Unprinted(2)) = CovOf(ConsumedRecs)

\* The f32 sums of the pairs of lines aggregated so far are exact.
SumsExact ==
    \A k \in 1..Len(emitted) :
        (emitted[k].src[1] # 0 /\ emitted[k].src[2] # 0)
            => LET r1 == RecAt(1, emitted[k].src[1])
                   r2 == RecAt(2, emitted[k].src[2])
               IN  /\ F32Add(r1.meth, r2.meth) = ExactAdd(r1.meth, r2.meth)
                   /\ F32Add(r1.cov, r2.cov) = ExactAdd(r1.cov, r2.cov)

\* The statement as written: whenever sync2 returns Ok on well-formed files,
\* the printed totals are the totals of the files.
C17_TotalsAlwaysConserved ==
    (ReturnedOk /\ WellFormed(1) /\ WellFormed(2)) => TotalsConserved

\* C17: on well-formed files, sorted or not, every printed record is the record
\* of one line or the aggregate of one line of each file, and every line read
\* is in exactly one place: one printed record, or the reader's pending record
\* not printed yet.  The meth and cov totals of printed and unprinted records
\* equal those of the lines read whenever the f32 sums taken were exact; when
\* Ok is returned every line has been read and nothing is unprinted.
C17_Conservation ==
    (emitted # <<>> /\ WellFormed(1) /\ WellFormed(2))
        => /\ \A k \in 1..Len(emitted) :
                LET e == emitted[k]
                IN  /\ e.src # <<0, 0>>
                    /\ e.src[2] = 0 => e.rec = RecAt(1, e.src[1])
                    /\ e.src[1] = 0 => e.rec = RecAt(2, e.src[2])
                    /\ (e.src[1] # 0 /\ e.src[2] # 0)
                         => /\ e.rec.coords = KeyAt(1, e.src[1])
                            /\ e.rec.coords = KeyAt(2, e.src[2])
                            /\ e.rec.meth = F32Add(RecAt(1, e.src[1]).meth,
                                                   RecAt(2, e.src[2]).meth)
                            /\ e.rec.cov = F32Add(RecAt(1, e.src[1]).cov,
                                                  RecAt(2, e.src[2]).cov)
           /\ \A i \in Readers : \A n \in 1..bf[i].pos :
                Cardinality({ k \in 1..Len(emitted) : emitted[k].src[i] = n })
                    = IF n = bf[i].pos /\ Unprinted(i) # <<>> THEN 0 ELSE 1
           /\ SumsExact => TotalsConserved
           /\ ReturnedOk => /\ \A i \in Readers : bf[i].pos = Len(disk[i])
                            /\ Unprinted(1) = <<>> /\ Unprinted(2) = <<>>

\* Two unsorted well-formed lines in file 1 and a line in file 2 with the key
\* of one of them: Ok was returned after an aggregate and a single record.
C17_Witness ==
    /\ ReturnedOk /\ WellFormed(1) /\ WellFormed(2) /\ SumsExact
    /\ Len(disk[1]) = 2 /\ Len(disk[2]) = 1 /\ Len(emitted) = 2
    /\ KeyLess(KeyAt(1, 2), KeyAt(1, 1))
    /\ \E k \in 1..2 : emitted[k].src[1] # 0 /\ emitted[k].src[2] # 0

----------------------------------------------------------------------------
(* C18 *)

\* What sync2 prints for two sequences of records when no call of next fails:
\* the loop of lib.rs 142-179 on the records still to come from each file.
RECURSIVE sync2_records(_, _)
sync2_records(a, b) ==
    IF a = <<>> /\ b = <<>> THEN <<>>
    ELSE IF b = <<>> THEN <<Head(a)>> \o sync2_records(Tail(a), <<>>)
    ELSE IF a = <<>> THEN <<Head(b)>> \o sync2_records(<<>>, Tail(b))
    ELSE LET ord == CoordsCmp(Head(a).coords, Head(b).coords)
         IN  IF ord = "Equal"
             THEN <<Aggregate(Head(a), Head(b))>> \o sync2_records(Tail(a), Tail(b))
             ELSE IF ord = "Less"
             THEN <<Head(a)>> \o sync2_records(Tail(a), b)
             ELSE <<Head(b)>> \o sync2_records(a, Tail(b))

\* The records of the first n lines of file i.
RecordsOf(i, n) == [k \in 1..n |-> RecAt(i, k)]

AllRecords(i) == RecordsOf(i, Len(disk[i]))

\* C18: when sync2 returns Ok (every line of both files was read and parsed),
\* the records it printed for (file1, file2) are the records sync2 prints for
\* the same two files given in the other order.
C18_Commutative ==
    ReturnedOk
        => /\ EmittedRecs = sync2_records(AllRecords(1), AllRecords(2))
           /\ EmittedRecs = sync2_records(AllRecords(2), AllRecords(1))

\* Two different files, one of two lines and one of one line, with a key in
\* common: an aggregate and a single record were printed.
C18_Witness ==
    /\ ReturnedOk /\ Len(disk[1]) = 2 /\ Len(disk[2]) = 1 /\ Len(emitted) = 2
    /\ disk[1][1] # disk[2][1] /\ disk[1][2] # disk[2][1]
    /\ \E k \in 1..2 : emitted[k].src[1] # 0 /\ emitted[k].src[2] # 0
    /\ emitted[1].rec.ratio # RecAt(1, 1).ratio

----------------------------------------------------------------------------
(* C19 *)

\* A call of next on the lines still to come from a file, without I/O failure:
\* Ok(None) at the end, Ok(Some(rec)) on a well-formed line, Err otherwise.
NextOf(lines) ==
    IF lines = <<>> THEN [ok |-> TRUE, rec |-> None, rest |-> <<>>]
    ELSE IF WellFormedLine(Head(lines))
    THEN [ok |-> TRUE, rec |-> Scan(Head(lines)).rec, rest |-> Tail(lines)]
    ELSE [ok |-> FALSE, rec |-> None, rest |-> Tail(lines)]

\* The records sync2 prints from the loop head on, with p1 and p2 pending and
\* r1 and r2 the lines still to come; an Err from next ends the output.
RECURSIVE sync2_loop(_, _, _, _)

\* file1.next()? then file2.next()?, then the loop (lib.rs 140-141, 159-160,
\* 172-173).
NextBoth(r1, r2) ==
    LET y1 == NextOf(r1)
        y2 == NextOf(r2)
    IN  IF ~y1.ok \/ ~y2.ok THEN <<>> ELSE sync2_loop(y1.rec, y1.rest, y2.rec, y2.rest)

sync2_loop(p1, r1, p2, r2) ==
    IF p1 = None /\ p2 = None THEN <<>>
    ELSE IF p2 = None THEN <<p1[1]>> \o NextBoth(r1, r2)
    ELSE IF p1 = None THEN <<p2[1]>> \o NextBoth(r1, r2)
    ELSE LET ord == CoordsCmp(p1[1].coords, p2[1].coords)
             y1  == NextOf(r1)
             y2  == NextOf(r2)
         IN  IF ord = "Equal" THEN <<Aggregate(p1[1], p2[1])>> \o NextBoth(r1, r2)
             ELSE IF ord = "Less"
             THEN <<p1[1]>> \o (IF y1.ok THEN sync2_loop(y1.rec, y1.rest, p2, r2) ELSE <<>>)
             ELSE <<p2[1]>> \o (IF y2.ok THEN sync2_loop(p1, r1, y2.rec, y2.rest) ELSE <<>>)

\* What sync2 prints for two files given as lines.
sync2_lines(a, b) == NextBoth(a, b)

IsPrefix(s, t) == Len(s) <= Len(t) /\ SubSeq(t, 1, Len(s)) = s

ParseErrorReturned ==
    pc = "return" /\ result.tag = "Err" /\ result.err[1].kind = "Parse"

\* The two files, with file i cut down to its first n lines.
Truncated(i, n) == [disk EXCEPT ![i] = SubSeq(disk[i], 1, n)]

====
